---- MODULE Spec2Model ----
(***************************************************************************)
(* Company registry (src/api.js, src/models.js): an express application    *)
(* that keeps companies in a primary store (mongoose model Company) and    *)
(* mirrors them into a search index (elasticsearch index 'companies').     *)
(*                                                                         *)
(* Every request is a chain of callbacks.  One action of the model is one  *)
(* turn of the event loop: a store call returns (its effect on the store   *)
(* happens here), its callback runs to the end, and the callback either    *)
(* sends the response or issues the next store call.  Requests in          *)
(* different slots interleave between turns.                               *)
(***************************************************************************)
EXTENDS Integers, Sequences, FiniteSets, TLC

(* ------------------------------------------------------------------ *)
(* Bounds of the model                                                 *)
(* ------------------------------------------------------------------ *)

\* Number of requests that may be in flight at the same time.
NumSlots == 2

\* Total number of requests started in one behaviour.
MaxStarts == 3

Slots == 1..NumSlots

(* ------------------------------------------------------------------ *)
(* JavaScript values                                                   *)
(* ------------------------------------------------------------------ *)

\* A property that is absent from a header set or from a JSON body.
Undefined == "<undefined>"

\* The JSON value null.
Null == "<null>"

\* JavaScript truthiness of a string-or-absent value, as used by
\* `if(newCompany.title)` and `company.description || ''`.
Truthy(v) == v \notin {Undefined, Null, ""}

\* `a || b`
OrElse(a, b) == IF Truthy(a) THEN a ELSE b

(* ------------------------------------------------------------------ *)
(* Program constants                                                   *)
(* ------------------------------------------------------------------ *)

ADMIN_TOKEN == "dabs"

\* Identifiers shorter than this are rejected by validateId.
MinIdLength == 12

\* maxlength / minlength of CompanySchema.title
TitleMaxLength == 100
TitleMinLength == 1

(* ------------------------------------------------------------------ *)
(* Inputs                                                              *)
(* ------------------------------------------------------------------ *)

\* Identifiers the primary store assigns, in order of assignment
\* (24 hexadecimal characters, an ObjectId).
IdPool == << "5a00000000000000000000a1", "5a00000000000000000000a2",
             "5a00000000000000000000a3", "5a00000000000000000000a4",
             "5a00000000000000000000a5", "5a00000000000000000000a6" >>

\* An id of 11 characters.
ShortId == "5a00000000a"

\* An id of 12 or more characters that is no ObjectId: the primary store
\* cannot cast it (21 characters).
UncastableId == "not-an-object-id-zzzz"

\* The ids a client sends in /companies/:id.
RequestIds == {IdPool[1], IdPool[2], ShortId, UncastableId}

\* A title of 101 characters.
LongTitle == "Loooooooooooooooooooooooooooooooooooooooooooooooooooooooooooooooooooooooooooooooooooooooooooooooooong"

RequestTitles == {Undefined, Null, "", "Acme", "Bolt", LongTitle}
RequestDescriptions == {Undefined, "", "Widgets"}
RequestUrls == {Undefined, "acme.com"}

RequestBodies == [title : RequestTitles,
                  description : RequestDescriptions,
                  url : RequestUrls]

\* The body of a request that carries none.
NoBody == [title |-> Undefined, description |-> Undefined, url |-> Undefined]

RequestTokens == {Undefined, ADMIN_TOKEN, "nope"}
RequestContentTypes == {Undefined, "application/json", "Application/json", "text/plain"}

(* ------------------------------------------------------------------ *)
(* State                                                               *)
(* ------------------------------------------------------------------ *)

VARIABLES
  db,       \* primary store: id -> [title, description, url, created]
  es,       \* search index: id -> document (a record of mirrored fields)
  req,      \* per slot: the request in that slot and its local variables
  nextId,   \* index into IdPool of the next id a new Company gets
  started,  \* number of requests started so far
  esCreated,   \* whether the index 'companies' exists in the search store
  registered   \* the last successful Register whose company no Update or
               \* Remove has written since (history, for the properties)

vars == << db, es, req, nextId, started, esCreated, registered >>

\* A mongoose document held by a callback chain; NoCompany is `null`.
NoCompany == [_id |-> "", title |-> "", description |-> "", url |-> "", created |-> 0]

\* Query parameter that is absent from the request.
NoParam == -1

IdleReq == [op |-> "none", token |-> Undefined, ctype |-> Undefined,
            id |-> "", body |-> NoBody, pc |-> "idle", status |-> 0,
            company |-> NoCompany, old |-> NoCompany, resId |-> "",
            calls |-> << >>,
            page |-> NoParam, max |-> NoParam, hits |-> << >>,
            sent |-> 0,    \* responses sent
            logged |-> ""] \* id the handlers have logged a failure for

\* No Register has succeeded, or its company has been written since.
NoRegistration == [id |-> "", title |-> "", description |-> "", url |-> "",
                   prior |-> {}]

\* A store that holds nothing.
EmptyStore == [i \in {} |-> NoCompany]

Init ==
  /\ db = EmptyStore
  /\ es = EmptyStore
  /\ req = [r \in Slots |-> IdleReq]
  /\ nextId = 1
  /\ started = 0
  /\ esCreated = FALSE
  /\ registered = NoRegistration

(* ------------------------------------------------------------------ *)
(* Helper functions of api.js                                          *)
(* ------------------------------------------------------------------ *)

\* validateId with the bound off by one (ids of 11 characters pass).
validateId_OffByOne(id) ==
  IF Len(id) < MinIdLength - 1
    THEN "Company ID must be at least 12 characters"
    ELSE ""

\* validateId: the message handed to the callback, "" for cb(null).
\* req.params.id is always a string, so `typeof id !== 'string'` is
\* never true of an id the router delivers.
validateId(id) ==
  IF Len(id) < MinIdLength
    THEN "Company ID must be at least 12 characters"
    ELSE ""

\* _.capitalize on the content types of RequestContentTypes
\* (upper-cases the first character; '' for undefined).
capitalize(s) ==
  CASE s = Undefined -> ""
    [] s = "application/json" -> "Application/json"
    [] s = "Application/json" -> "Application/json"
    [] s = "text/plain" -> "Text/plain"
    [] OTHER -> s

\* checkHeaders with the content type checked before the admin token.
checkHeaders_ContentTypeFirst(token, ctype, hasContent) ==
  IF hasContent /\ capitalize(ctype) # "Application/json"
    THEN 415
    ELSE IF ~Truthy(token) \/ token # ADMIN_TOKEN
      THEN 401
      ELSE 0

\* checkHeaders: the status set on the response, 0 for cb(null).
checkHeaders(token, ctype, hasContent) ==
  IF ~Truthy(token) \/ token # ADMIN_TOKEN
    THEN 401
    ELSE IF hasContent /\ capitalize(ctype) # "Application/json"
      THEN 415
      ELSE 0

\* excludeTitles(company): the fields mirrored into the index.
excludeTitles(company) ==
  [title |-> company.title, description |-> company.description,
   url |-> company.url]

\* excludeTitles(company, false, true): the public view of a company.
excludeTitlesWithId(company) ==
  [id |-> company._id, title |-> company.title,
   description |-> company.description, url |-> company.url]

(* ------------------------------------------------------------------ *)
(* The primary store (mongoose model Company)                          *)
(* ------------------------------------------------------------------ *)

\* Whether the store can cast the id to an ObjectId (12 bytes or 24
\* hexadecimal characters); findOne fails with a CastError otherwise.
Castable(id) == Len(id) \in {12, 24}

\* A schema whose `required` accepts null.
ValidTitle_NullAccepted(t) ==
  /\ t # Undefined
  /\ Len(t) >= TitleMinLength
  /\ Len(t) <= TitleMaxLength

\* CompanySchema: title is required, of 1 to 100 characters.
ValidTitle(t) ==
  /\ t \notin {Undefined, Null}
  /\ Len(t) >= TitleMinLength
  /\ Len(t) <= TitleMaxLength

\* The document the store holds under id, as a mongoose document.
Doc(id) ==
  [_id |-> id, title |-> db[id].title, description |-> db[id].description,
   url |-> db[id].url, created |-> db[id].created]

\* What a document stores under its id.
Stored(c) ==
  [title |-> c.title, description |-> c.description, url |-> c.url,
   created |-> c.created]

\* The ids of the stored companies with the given title.
IdsByTitle(t) == {i \in DOMAIN db : db[i].title = t}

(* ------------------------------------------------------------------ *)
(* The log of store calls of a request                                 *)
(* ------------------------------------------------------------------ *)

\* The request issues a call: it is pending until its callback runs.
Issue(calls, store, op) ==
  Append(calls, [store |-> store, op |-> op, result |-> "pending"])

\* The last call issued returns with the given result: "ok", "err", or
\* "notfound" when the search store answers that it does not hold the
\* document or the index asked for.
Return(calls, result) ==
  [calls EXCEPT ![Len(calls)].result = result]

Result(ok) == IF ok THEN "ok" ELSE "err"

\* A slot can take a new request.
Free(r) == req[r].pc = "idle" /\ started < MaxStarts

\* res.status(s).send(...): the request is answered.
Respond(q, s) == [q EXCEPT !.pc = "done", !.status = s, !.sent = @ + 1]

\* The request as it arrives: nothing called, nothing answered.
NewReq(op, token, ctype, id, body) ==
  [IdleReq EXCEPT !.op = op, !.token = token, !.ctype = ctype, !.id = id,
                  !.body = body]

\* The server's clock (the value of `new Date()`): it advances with
\* every request that arrives.
Now == started

\* A store with rec under id, and a store without id.
StoreWith(store, id, rec) ==
  [i \in DOMAIN store \cup {id} |-> IF i = id THEN rec ELSE store[i]]

StoreWithout(store, id) ==
  [i \in DOMAIN store \ {id} |-> store[i]]

\* Company.findOne({'_id': id}): the error it reports ("" for none) and
\* the document it finds (NoCompany for null).
FindOneErr(id, ok) ==
  IF ~Castable(id) THEN "CastError" ELSE IF ~ok THEN "Error" ELSE ""

FindOneDoc(id) == IF id \in DOMAIN db THEN Doc(id) ELSE NoCompany

\* The callback of Company.findOne in getCompanyById: the status set on
\* the response (0 for none) and the company handed to cb.
getCompanyById(err, company) ==
  IF err # "" THEN
    IF err = "CastError" THEN [status |-> 404, company |-> NoCompany]
    ELSE [status |-> 500, company |-> NoCompany]
  ELSE IF company = NoCompany THEN [status |-> 404, company |-> NoCompany]
  ELSE [status |-> 0, company |-> company]

\* A save that stamps the stored document with the time of the save.
SaveLoaded_StampsCreated(c, loaded) ==
  IF c._id \notin DOMAIN db THEN db
  ELSE [db EXCEPT ![c._id] =
          [title |-> IF c.title # loaded.title THEN c.title ELSE @.title,
           description |-> IF c.description # loaded.description
                             THEN c.description ELSE @.description,
           url |-> IF c.url # loaded.url THEN c.url ELSE @.url,
           created |-> Now]]

\* company.save() of a document loaded from the store: the modified
\* paths are written to the stored document, if it is still there.
SaveLoaded(c, loaded) ==
  IF c._id \notin DOMAIN db THEN db
  ELSE [db EXCEPT ![c._id] =
          [title |-> IF c.title # loaded.title THEN c.title ELSE @.title,
           description |-> IF c.description # loaded.description
                             THEN c.description ELSE @.description,
           url |-> IF c.url # loaded.url THEN c.url ELSE @.url,
           created |-> @.created]]

\* A patch that overwrites the description whenever one is supplied,
\* the empty string included.
ApplyPatch_EmptyOverwrites(company, newCompany) ==
  [company EXCEPT
     !.title = IF Truthy(newCompany.title) THEN newCompany.title ELSE @,
     !.description = IF newCompany.description # Undefined
                       THEN newCompany.description ELSE @,
     !.url = IF Truthy(newCompany.url) THEN newCompany.url ELSE @]

\* The patch of app.post('/companies/:id'): supplied truthy values
\* overwrite, everything else is kept.
ApplyPatch(company, newCompany) ==
  [company EXCEPT
     !.title = IF Truthy(newCompany.title) THEN newCompany.title ELSE @,
     !.description = IF Truthy(newCompany.description)
                       THEN newCompany.description ELSE @,
     !.url = IF Truthy(newCompany.url) THEN newCompany.url ELSE @]

\* new Company({...}) without the `|| ''` defaults.
NewCompany_NoDefaults(company) ==
  [_id |-> IdPool[nextId], title |-> company.title,
   description |-> company.description,
   url |-> company.url, created |-> Now]

\* new Company({...}) of app.post('/companies').
NewCompany(company) ==
  [_id |-> IdPool[nextId], title |-> company.title,
   description |-> OrElse(company.description, ""),
   url |-> OrElse(company.url, ""), created |-> Now]

\* The document app.post('/companies') indexes.
RegisterIndexBody(dbCompany) ==
  [title |-> dbCompany.title, description |-> dbCompany.description,
   url |-> dbCompany.url, created |-> dbCompany.created]

(* ------------------------------------------------------------------ *)
(* GET /companies                                                      *)
(* ------------------------------------------------------------------ *)

PAGE_DEFAULT_ENTRIES == 20
PAGE_DEFAULT_START == 0

\* The query parameters of the requests.
RequestPages == {NoParam, 1}
RequestMaxes == {NoParam, 1}

\* The outcomes of client.search(...): the search store answers, or the
\* call is rejected with an error that carries a body, or with one that
\* carries none.
SearchOutcomes == {"ok", "error", "no_body"}

\* The titles the stores can hold, in ascending order.
TitleOrder == << "Acme", "Bolt" >>

Rank(title) == CHOOSE i \in 1..Len(TitleOrder) : TitleOrder[i] = title

\* sort: [{'title': {'order': 'asc'}}] over match_all: every document of
\* the index once, titles ascending, equal titles in any order.
SortedHits ==
  {s \in [1..Cardinality(DOMAIN es) -> DOMAIN es] :
     /\ \A i, j \in DOMAIN s : i # j => s[i] # s[j]
     /\ \A i, j \in DOMAIN s :
          i < j => Rank(es[s[i]].title) <= Rank(es[s[j]].title)}

\* 'size': max, 'from': page.
Window(s, page, max) ==
  LET last == IF page + max < Len(s) THEN page + max ELSE Len(s) IN
  IF page + 1 > last THEN << >> ELSE SubSeq(s, page + 1, last)

\* docs.hits.hits.map(...)
MappedDocs(s) ==
  [i \in DOMAIN s |-> [id |-> s[i], title |-> es[s[i]].title,
                        description |-> es[s[i]].description,
                        url |-> es[s[i]].url]]

StartList(r, page, max) ==
  /\ Free(r)
  /\ started' = started + 1
  /\ req' = [req EXCEPT ![r] =
       [IdleReq EXCEPT !.op = "list",
                       !.page = IF page = NoParam THEN PAGE_DEFAULT_START
                                                  ELSE page,
                       !.max = IF max = NoParam THEN PAGE_DEFAULT_ENTRIES
                                                ELSE max,
                       !.pc = "list_search",
                       !.calls = Issue(<< >>, "es", "search")]]
  /\ UNCHANGED << db, es, nextId, esCreated, registered >>

\* Handlers without the index_not_found_exception workaround.
ListCb_NoWorkaround(q, err, hits) ==
  IF err = "" THEN Respond([q EXCEPT !.hits = MappedDocs(hits)], 200)
  ELSE IF err = "no_body" THEN [q EXCEPT !.pc = "hung"]
  ELSE Respond(q, 500)

\* The handlers of the promise of client.search(...). Reading
\* err.body.error.type of an error without a body throws in the
\* rejection handler: nothing is sent.
ListCb(q, err, hits) ==
  IF err = "" THEN Respond([q EXCEPT !.hits = MappedDocs(hits)], 200)
  ELSE IF err = "no_body" THEN [q EXCEPT !.pc = "hung"]
  ELSE IF err = "index_not_found" THEN Respond(q, 200)
  ELSE Respond(q, 500)

\* client.search(...): a search of an index that does not exist is
\* rejected with index_not_found_exception.
ListSearch(r, outcome) ==
  /\ req[r].pc = "list_search"
  /\ LET err == IF outcome # "ok" THEN outcome
                ELSE IF ~esCreated THEN "index_not_found" ELSE ""
         q == [req[r] EXCEPT !.calls =
                 Return(@, IF err = "" THEN "ok"
                           ELSE IF err = "index_not_found" THEN "notfound"
                           ELSE "err")] IN
     \E s \in SortedHits :
       req' = [req EXCEPT ![r] = ListCb(q, err, Window(s, q.page, q.max))]
  /\ UNCHANGED << db, es, nextId, started, esCreated, registered >>

(* ------------------------------------------------------------------ *)
(* GET /companies/:id                                                  *)
(* ------------------------------------------------------------------ *)

StartFetchOne(r, id) ==
  /\ Free(r)
  /\ started' = started + 1
  /\ LET q == NewReq("fetchOne", Undefined, Undefined, id, NoBody) IN
     req' = [req EXCEPT ![r] =
       IF validateId(id) # "" THEN Respond(q, 412)
       ELSE [q EXCEPT !.pc = "fetch_find",
                      !.calls = Issue(<< >>, "db", "findOne")]]
  /\ UNCHANGED << db, es, nextId, esCreated, registered >>

\* The callback handed to getCompanyById.
FetchOneCb(q, f) ==
  IF f.status # 0 THEN Respond(q, f.status)
  ELSE Respond([q EXCEPT !.company = f.company,
                         !.resId = excludeTitlesWithId(f.company).id], 200)

FetchFind(r, ok) ==
  /\ req[r].pc = "fetch_find"
  /\ LET err == FindOneErr(req[r].id, ok)
         q == [req[r] EXCEPT !.calls = Return(@, Result(err = ""))] IN
     req' = [req EXCEPT ![r] =
               FetchOneCb(q, getCompanyById(err, FindOneDoc(q.id)))]
  /\ UNCHANGED << db, es, nextId, started, esCreated, registered >>

(* ------------------------------------------------------------------ *)
(* POST /companies                                                     *)
(* ------------------------------------------------------------------ *)

StartRegister(r, token, ctype, body) ==
  /\ Free(r)
  /\ started' = started + 1
  /\ LET q == NewReq("register", token, ctype, "", body)
         h == checkHeaders(token, ctype, TRUE) IN
     req' = [req EXCEPT ![r] =
       IF h # 0 THEN Respond(q, h)
       ELSE [q EXCEPT !.pc = "reg_find",
                      !.calls = Issue(<< >>, "db", "findOne")]]
  /\ UNCHANGED << db, es, nextId, esCreated, registered >>

\* The callback without the `return` of the 409 branch: the response is
\* sent and the company is saved all the same.
RegFindCb_NoReturnOnDuplicate(q, err, found) ==
  IF err THEN Respond(q, 500)
  ELSE [q EXCEPT !.status = IF found THEN 409 ELSE @,
                 !.company = NewCompany(q.body),
                 !.calls = Issue(@, "db", "save"),
                 !.pc = "reg_save"]

\* The callback without the duplicate check.
RegFindCb_NoDuplicateCheck(q, err, found) ==
  IF err THEN Respond(q, 500)
  ELSE [q EXCEPT !.company = NewCompany(q.body),
                 !.calls = Issue(@, "db", "save"),
                 !.pc = "reg_save"]

\* The callback of Company.findOne({'title': company.title}); found says
\* whether a document came back.
RegFindCb(q, err, found) ==
  IF err THEN Respond(q, 500)
  ELSE IF found THEN Respond(q, 409)
  ELSE [q EXCEPT !.company = NewCompany(q.body),
                 !.calls = Issue(@, "db", "save"),
                 !.pc = "reg_save"]

RegFind(r, ok) ==
  /\ req[r].pc = "reg_find"
  /\ LET q == [req[r] EXCEPT !.calls = Return(@, Result(ok))] IN
     req' = [req EXCEPT ![r] =
               RegFindCb(q, ~ok, IdsByTitle(q.body.title) # {})]
  /\ nextId' = IF req'[r].pc = "reg_save" THEN nextId + 1 ELSE nextId
  /\ UNCHANGED << db, es, started, esCreated, registered >>

\* The callback without the `if(err)` return.
RegSaveCb_ErrIgnored(q, err) ==
  [q EXCEPT !.calls = Issue(@, "es", "index"), !.pc = "reg_index"]

\* The callback of c.save().
RegSaveCb(q, err) ==
  IF err THEN Respond(q, 412)
  ELSE [q EXCEPT !.calls = Issue(@, "es", "index"), !.pc = "reg_index"]

\* An insert that the store refuses when another document has the
\* title, as under a unique index on title.
RegSave_UniqueTitle(r, ok) ==
  /\ req[r].pc = "reg_save"
  /\ LET saved == /\ ValidTitle(req[r].company.title) /\ ok
                  /\ IdsByTitle(req[r].company.title) = {}
         q == [req[r] EXCEPT !.calls = Return(@, Result(saved))] IN
     /\ db' = IF saved THEN StoreWith(db, q.company._id, Stored(q.company))
                       ELSE db
     /\ req' = [req EXCEPT ![r] = RegSaveCb(q, ~saved)]
  /\ UNCHANGED << es, nextId, started, esCreated, registered >>

\* c.save(): the schema is validated before the insert.
RegSave(r, ok) ==
  /\ req[r].pc = "reg_save"
  /\ LET saved == ValidTitle(req[r].company.title) /\ ok
         q == [req[r] EXCEPT !.calls = Return(@, Result(saved))] IN
     /\ db' = IF saved THEN StoreWith(db, q.company._id, Stored(q.company))
                       ELSE db
     /\ req' = [req EXCEPT ![r] = RegSaveCb(q, ~saved)]
  /\ UNCHANGED << es, nextId, started, esCreated, registered >>

\* Handlers that record a failed index write under the id of the
\* company and answer 201 all the same.
RegIndexCb_LogsDivergence(q, err) ==
  Respond([q EXCEPT !.resId = q.company._id,
                    !.logged = IF err THEN q.company._id ELSE @], 201)

\* Handlers that answer 201 whether the index write failed or not.
RegIndexCb_AlwaysCreated(q, err) ==
  Respond([q EXCEPT !.resId = q.company._id], 201)

\* The handlers of the promise of client.index(...).
RegIndexCb(q, err) ==
  IF err THEN Respond(q, 500)
  ELSE Respond([q EXCEPT !.resId = q.company._id], 201)

\* What a Register that succeeded registered: the id it answered, the
\* values of its body (description and url defaulting to ''), and the
\* ids the stores held before it.
Registration(q, prior) ==
  [id |-> q.company._id, title |-> q.body.title,
   description |-> OrElse(q.body.description, ""),
   url |-> OrElse(q.body.url, ""), prior |-> prior]

\* client.index(...) creates the index with its first document.
RegIndex(r, ok) ==
  /\ req[r].pc = "reg_index"
  /\ LET q == [req[r] EXCEPT !.calls = Return(@, Result(ok))] IN
     /\ es' = IF ok
                THEN StoreWith(es, q.company._id, RegisterIndexBody(q.company))
                ELSE es
     /\ req' = [req EXCEPT ![r] = RegIndexCb(q, ~ok)]
     /\ registered' = IF req'[r].status = 201
                         THEN Registration(q, (DOMAIN db \cup DOMAIN es)
                                                \ {q.company._id})
                         ELSE registered
  /\ esCreated' = (esCreated \/ ok)
  /\ UNCHANGED << db, nextId, started >>

(* ------------------------------------------------------------------ *)
(* POST /companies/:id                                                 *)
(* ------------------------------------------------------------------ *)

StartUpdate(r, token, ctype, id, body) ==
  /\ Free(r)
  /\ started' = started + 1
  /\ LET q == NewReq("update", token, ctype, id, body)
         h == checkHeaders(token, ctype, TRUE) IN
     req' = [req EXCEPT ![r] =
       IF h # 0 THEN Respond(q, h)
       ELSE IF validateId(id) # "" THEN Respond(q, 412)
       ELSE [q EXCEPT !.pc = "upd_find",
                      !.calls = Issue(<< >>, "db", "findOne")]]
  /\ UNCHANGED << db, es, nextId, esCreated, registered >>

\* The callback handed to getCompanyById: keep the old company, apply
\* the patch and save.
UpdFindCb(q, f) ==
  IF f.status # 0 THEN Respond(q, f.status)
  ELSE [q EXCEPT !.old = f.company,
                 !.company = ApplyPatch(f.company, q.body),
                 !.calls = Issue(@, "db", "save"),
                 !.pc = "upd_save"]

UpdFind(r, ok) ==
  /\ req[r].pc = "upd_find"
  /\ LET err == FindOneErr(req[r].id, ok)
         q == [req[r] EXCEPT !.calls = Return(@, Result(err = ""))] IN
     req' = [req EXCEPT ![r] =
               UpdFindCb(q, getCompanyById(err, FindOneDoc(q.id)))]
  /\ UNCHANGED << db, es, nextId, started, esCreated, registered >>

\* The callback without the `if(err)` return.
UpdSaveCb_ErrIgnored(q, err) ==
  [q EXCEPT !.calls = Issue(@, "es", "index"), !.pc = "upd_index"]

\* The callback of company.save().
UpdSaveCb(q, err) ==
  IF err THEN Respond(q, 500)
  ELSE [q EXCEPT !.calls = Issue(@, "es", "index"), !.pc = "upd_index"]

\* company.save(): the schema is validated before the update.
UpdSave(r, ok) ==
  /\ req[r].pc = "upd_save"
  /\ LET saved == ValidTitle(req[r].company.title) /\ ok
         q == [req[r] EXCEPT !.calls = Return(@, Result(saved))] IN
     /\ db' = IF saved THEN SaveLoaded(q.company, q.old) ELSE db
     /\ req' = [req EXCEPT ![r] = UpdSaveCb(q, ~saved)]
     /\ registered' = IF saved /\ q.id = registered.id
                         THEN NoRegistration ELSE registered
  /\ UNCHANGED << es, nextId, started, esCreated >>

\* The handlers of the promise of client.index(...).
UpdIndexCb(q, err) ==
  IF err THEN Respond(q, 500) ELSE Respond(q, 200)

\* client.index(...) replaces the document under the id.
UpdIndex(r, ok) ==
  /\ req[r].pc = "upd_index"
  /\ LET q == [req[r] EXCEPT !.calls = Return(@, Result(ok))] IN
     /\ es' = IF ok THEN StoreWith(es, q.id, excludeTitles(q.company))
                    ELSE es
     /\ req' = [req EXCEPT ![r] = UpdIndexCb(q, ~ok)]
  /\ esCreated' = (esCreated \/ ok)
  /\ UNCHANGED << db, nextId, started, registered >>

(* ------------------------------------------------------------------ *)
(* DELETE /companies/:id                                               *)
(* ------------------------------------------------------------------ *)

StartRemove(r, token, ctype, id) ==
  /\ Free(r)
  /\ started' = started + 1
  /\ LET q == NewReq("remove", token, ctype, id, NoBody)
         h == checkHeaders(token, ctype, FALSE) IN
     req' = [req EXCEPT ![r] =
       IF h # 0 THEN Respond(q, h)
       ELSE IF validateId(id) # "" THEN Respond(q, 412)
       ELSE [q EXCEPT !.pc = "rem_find",
                      !.calls = Issue(<< >>, "db", "findOne")]]
  /\ UNCHANGED << db, es, nextId, esCreated, registered >>

\* The callback handed to getCompanyById: remove the company found.
RemFindCb(q, f) ==
  IF f.status # 0 THEN Respond(q, f.status)
  ELSE [q EXCEPT !.company = f.company,
                 !.calls = Issue(@, "db", "remove"),
                 !.pc = "rem_remove"]

RemFind(r, ok) ==
  /\ req[r].pc = "rem_find"
  /\ LET err == FindOneErr(req[r].id, ok)
         q == [req[r] EXCEPT !.calls = Return(@, Result(err = ""))] IN
     req' = [req EXCEPT ![r] =
               RemFindCb(q, getCompanyById(err, FindOneDoc(q.id)))]
  /\ UNCHANGED << db, es, nextId, started, esCreated, registered >>

\* The callback without the `if(err)` return.
RemRemoveCb_ErrIgnored(q, err) ==
  [q EXCEPT !.calls = Issue(@, "es", "delete"), !.pc = "rem_delete"]

\* The callback of company.remove().
RemRemoveCb(q, err) ==
  IF err THEN Respond(q, 500)
  ELSE [q EXCEPT !.calls = Issue(@, "es", "delete"), !.pc = "rem_delete"]

RemRemove(r, ok) ==
  /\ req[r].pc = "rem_remove"
  /\ LET q == [req[r] EXCEPT !.calls = Return(@, Result(ok))] IN
     /\ db' = IF ok THEN StoreWithout(db, q.company._id) ELSE db
     /\ req' = [req EXCEPT ![r] = RemRemoveCb(q, ~ok)]
     /\ registered' = IF ok /\ q.id = registered.id
                         THEN NoRegistration ELSE registered
  /\ UNCHANGED << es, nextId, started, esCreated >>

\* Handlers that answer 200 whether the index delete failed or not.
RemDeleteCb_ErrIgnored(q, err) == Respond(q, 200)

\* The handlers of the promise of client.delete(...).
RemDeleteCb(q, err) ==
  IF err THEN Respond(q, 500) ELSE Respond(q, 200)

\* client.delete(...): the search store rejects the delete of a
\* document it does not hold.
RemDelete(r, ok) ==
  /\ req[r].pc = "rem_delete"
  /\ LET deleted == ok /\ req[r].id \in DOMAIN es
         q == [req[r] EXCEPT !.calls =
                 Return(@, IF ok /\ ~deleted THEN "notfound"
                                             ELSE Result(deleted))] IN
     /\ es' = IF deleted THEN StoreWithout(es, q.id) ELSE es
     /\ req' = [req EXCEPT ![r] = RemDeleteCb(q, ~deleted)]
  /\ UNCHANGED << db, nextId, started, esCreated, registered >>

\* The response has left the server, or the client has given up on a
\* request that is left without one: the callbacks of the request and
\* their variables are gone.
Finish(r) ==
  /\ req[r].pc \in {"done", "hung"}
  /\ req' = [req EXCEPT ![r] = IdleReq]
  /\ UNCHANGED << db, es, nextId, started, esCreated, registered >>

(* ------------------------------------------------------------------ *)
(* Specifications                                                      *)
(* ------------------------------------------------------------------ *)

\* A store call returns and its callback runs, in slot r.
Step(r) ==
  \/ \E outcome \in SearchOutcomes : ListSearch(r, outcome)
  \/ \E ok \in BOOLEAN :
    \/ FetchFind(r, ok)
    \/ RegFind(r, ok)
    \/ RegSave(r, ok)
    \/ RegIndex(r, ok)
    \/ UpdFind(r, ok)
    \/ UpdSave(r, ok)
    \/ UpdIndex(r, ok)
    \/ RemFind(r, ok)
    \/ RemRemove(r, ok)
    \/ RemDelete(r, ok)

\* A request arrives in slot r, its headers, id and body drawn from the
\* given sets.
StartFrom(r, tokens, ctypes, ids, bodies) ==
  \/ Free(r) /\ \E page \in RequestPages, max \in RequestMaxes :
                     StartList(r, page, max)
  \/ Free(r) /\ \E id \in ids : StartFetchOne(r, id)
  \/ Free(r) /\ \E token \in tokens, ctype \in ctypes, body \in bodies :
                     StartRegister(r, token, ctype, body)
  \/ Free(r) /\ \E token \in tokens, ctype \in ctypes, id \in ids,
                   body \in bodies :
                     StartUpdate(r, token, ctype, id, body)
  \/ Free(r) /\ \E token \in tokens, ctype \in ctypes, id \in ids :
                     StartRemove(r, token, ctype, id)

\* Requests that do not overlap: each one completes before the next
\* one starts (all of them in slot 1).
Next ==
  \/ StartFrom(1, RequestTokens, RequestContentTypes, RequestIds,
               RequestBodies)
  \/ Step(1)
  \/ Finish(1)

Spec == Init /\ [][Next]_vars

\* The requests that overlap: well-formed ones, on one company.
ConcurrentBodies == [title : {Undefined, "Acme", "Bolt"},
                     description : {Undefined, "Widgets"},
                     url : {Undefined}]

\* Requests in all slots, their store calls returning in any order.
NextConcurrent ==
  \E r \in Slots :
    \/ StartFrom(r, {ADMIN_TOKEN}, {"application/json"}, {IdPool[1]},
                 ConcurrentBodies)
    \/ Step(r)
    \/ Finish(r)

SpecConcurrent == Init /\ [][NextConcurrent]_vars

\* No call of the request has failed: none was rejected or came back
\* with an error.
NoCallFailed(q) ==
  \A k \in 1..Len(q.calls) : q.calls[k].result \notin {"err", "notfound"}

\* The executions of NextConcurrent in which no store or index call
\* fails.
NextNoFailure ==
  \E r \in Slots :
    \/ StartFrom(r, {ADMIN_TOKEN}, {"application/json"}, {IdPool[1]},
                 ConcurrentBodies)
    \/ Step(r) /\ NoCallFailed(req'[r])
    \/ Finish(r)

SpecNoFailure == Init /\ [][NextNoFailure]_vars

(* ------------------------------------------------------------------ *)
(* Vocabulary of the properties                                        *)
(* ------------------------------------------------------------------ *)

\* The request carries the admin token.
TokenOk(q) == q.token = ADMIN_TOKEN

\* The request carries the content type [aA]pplication/json.
JsonType(q) == q.ctype \in {"application/json", "Application/json"}

\* The request is a write operation.
IsWrite(q) == q.op \in {"register", "update", "remove"}

\* The request has been answered.
Done(q) == q.pc = "done"

\* A call that writes the primary store, and one that writes the index.
PrimaryWrite(c) == c.store = "db" /\ c.op \in {"save", "remove"}
IndexWrite(c) == c.store = "es" /\ c.op \in {"index", "delete"}

\* The last call the request issued.
LastCall(q) == q.calls[Len(q.calls)]

\* C1: in Register, Update and Remove every search-index write of a
\* request is issued only after a primary-store write of that same
\* request has returned successfully; no request touches the index
\* before, or without, its primary-store write.
C1_IndexAfterPrimaryWrite ==
  \A r \in Slots :
    IsWrite(req[r]) =>
      \A k \in 1..Len(req[r].calls) :
        req[r].calls[k].store = "es" =>
          \E j \in 1..(k - 1) :
            /\ PrimaryWrite(req[r].calls[j])
            /\ req[r].calls[j].result = "ok"

\* A Remove that deleted the index document after removing the company.
C1_Witness ==
  \E r \in Slots :
    /\ req[r].op = "remove" /\ req[r].status = 200
    /\ Len(req[r].calls) = 3
    /\ IndexWrite(req[r].calls[3]) /\ req[r].calls[3].result = "ok"
    /\ PrimaryWrite(req[r].calls[2]) /\ req[r].calls[2].result = "ok"

\* C2: when requests do not overlap, the primary store never holds two
\* companies with the same title.
C2_UniqueTitles ==
  \A i, j \in DOMAIN db : db[i].title = db[j].title => i = j

\* Another company than the one the request created has its title.
TitleTaken(q) ==
  \E i \in DOMAIN db : db[i].title = q.body.title /\ i # q.company._id

\* A Register with valid headers that has been answered and whose title
\* is the title of a stored company.
DuplicateRegister(q) ==
  /\ q.op = "register" /\ Done(q)
  /\ TokenOk(q) /\ JsonType(q)
  /\ TitleTaken(q)

\* C3 as stated: such a Register always yields 409.
C3_AlwaysDuplicateError ==
  \A r \in Slots : DuplicateRegister(req[r]) => req[r].status = 409

\* C3: a Register with valid headers whose title is the title of a
\* stored company yields 409 whatever description and url it carries,
\* whenever the title lookup succeeds; when the lookup itself fails it
\* yields 500.  Either way the lookup is its only store call.
C3_DuplicateErrorUnlessLookupFails ==
  \A r \in Slots :
    DuplicateRegister(req[r]) =>
      /\ Len(req[r].calls) = 1
      /\ req[r].calls[1].result = "ok" => req[r].status = 409
      /\ req[r].calls[1].result = "err" => req[r].status = 500

\* A 409 for a body whose description differs from the stored one.
C3_Witness ==
  \E r \in Slots :
    /\ DuplicateRegister(req[r]) /\ req[r].status = 409
    /\ \E i \in DOMAIN db :
         /\ db[i].title = req[r].body.title
         /\ db[i].description # OrElse(req[r].body.description, "")

\* The index write of an answered Register or Update failed.
IndexWriteFailed(q) ==
  /\ q.op \in {"register", "update"} /\ Done(q)
  /\ Len(q.calls) > 0
  /\ IndexWrite(LastCall(q)) /\ LastCall(q).result = "err"

C5_PrimaryFailureAborts ==
  \A r \in Slots :
    ( /\ IsWrite(req[r])
      /\ \E k \in 1..Len(req[r].calls) :
           req[r].calls[k].store = "db" /\ req[r].calls[k].result = "err" )
    => /\ Done(req[r])
       /\ req[r].status \in {404, 412, 500}
       /\ \A k \in 1..Len(req[r].calls) : req[r].calls[k].store # "es"

\* An Update whose save of a valid company was rejected by the store.
C5_Witness ==
  \E r \in Slots :
    /\ req[r].op = "update" /\ req[r].status = 500
    /\ Len(req[r].calls) = 2
    /\ PrimaryWrite(req[r].calls[2]) /\ req[r].calls[2].result = "err"
    /\ ValidTitle(req[r].company.title)

\* FetchOne, Update or Remove (the latter two with valid headers) with
\* an id of fewer than 12 characters.
ShortIdRequest(q) ==
  /\ q.op \in {"fetchOne", "update", "remove"}
  /\ Len(q.id) < 12
  /\ q.op \in {"update", "remove"} => TokenOk(q)
  /\ q.op = "update" => JsonType(q)

\* C6: FetchOne, Update and Remove (Update and Remove with valid
\* headers) with an id shorter than 12 characters yield 412 at once,
\* and the request makes no primary-store and no index call.
C6_ShortIdRejectedBeforeStores ==
  \A r \in Slots :
    ShortIdRequest(req[r]) =>
      /\ Done(req[r])
      /\ req[r].status = 412
      /\ req[r].calls = << >>

\* A Remove of an 11-character id, rejected while companies are stored.
C6_Witness ==
  \E r \in Slots :
    /\ req[r].op = "remove" /\ ShortIdRequest(req[r])
    /\ Len(req[r].id) = 11
    /\ req[r].status = 412
    /\ db # EmptyStore

\* C7: for Register, Update and Remove a missing or incorrect admin
\* token yields 401 whatever the content type, id and body are; with a
\* correct token a wrong content type on Register or Update yields 415
\* whatever the id and body are; in both cases no store call is made.
C7_HeaderGuardsFirst ==
  \A r \in Slots :
    IsWrite(req[r]) =>
      /\ ~TokenOk(req[r]) =>
           Done(req[r]) /\ req[r].status = 401 /\ req[r].calls = << >>
      /\ ( /\ TokenOk(req[r])
           /\ req[r].op \in {"register", "update"}
           /\ ~JsonType(req[r]) ) =>
           Done(req[r]) /\ req[r].status = 415 /\ req[r].calls = << >>

\* An Update with a wrong token, a wrong content type, a short id and no
\* title, answered 401.
C7_Witness ==
  \E r \in Slots :
    /\ req[r].op = "update" /\ req[r].status = 401
    /\ req[r].token = "nope" /\ req[r].ctype = "text/plain"
    /\ req[r].id = ShortId /\ req[r].body.title = Undefined

\* An answered Register with valid headers and an absent or null title.
RegisterWithoutTitle(q) ==
  /\ q.op = "register" /\ Done(q)
  /\ TokenOk(q) /\ JsonType(q)
  /\ q.body.title \in {Undefined, Null}

\* C8 as stated: 412, and no store call before the error is returned.
C8_ValidationBeforeAnyStoreCall ==
  \A r \in Slots :
    RegisterWithoutTitle(req[r]) =>
      req[r].status = 412 /\ req[r].calls = << >>

\* C8: a Register with valid headers and an absent or null title first
\* issues the title lookup.  When the lookup succeeds the request yields
\* 412, whatever the primary store holds: the save is refused by the
\* schema, nothing is inserted and no index call is made.  When the
\* lookup fails the request yields 500.
C8_ValidationAfterTitleLookup ==
  \A r \in Slots :
    RegisterWithoutTitle(req[r]) =>
      /\ Len(req[r].calls) >= 1
      /\ req[r].calls[1] \in
           {[store |-> "db", op |-> "findOne", result |-> x] : x \in {"ok", "err"}}
      /\ req[r].calls[1].result = "err" =>
           req[r].status = 500 /\ Len(req[r].calls) = 1
      /\ req[r].calls[1].result = "ok" =>
           /\ req[r].status = 412
           /\ Len(req[r].calls) = 2
           /\ req[r].calls[2] = [store |-> "db", op |-> "save", result |-> "err"]
      /\ req[r].company._id \notin DOMAIN db
      /\ \A i \in DOMAIN db : db[i].title \notin {Undefined, Null}

\* A 412 for a null title while the primary store holds a company.
C8_Witness ==
  \E r \in Slots :
    /\ RegisterWithoutTitle(req[r]) /\ req[r].status = 412
    /\ req[r].body.title = Null
    /\ db # EmptyStore

\* The request was answered DuplicateError or NotFound.
NoEffectOutcome(q) ==
  \/ q.op = "register" /\ q.status = 409
  \/ q.op \in {"fetchOne", "update", "remove"} /\ q.status = 404

\* C9: a Register that ends with 409 and a FetchOne, Update or Remove
\* that ends with 404 leave both stores as they were: the request has
\* issued reads only, the step that answers it changes neither store,
\* and a store changes only when a write call of some request returns.
C9_NoEffectOnDuplicateOrNotFound ==
  [][ /\ \A r \in Slots :
           NoEffectOutcome(req'[r]) =>
             /\ \A k \in 1..Len(req'[r].calls) :
                  req'[r].calls[k].op = "findOne"
             /\ req[r].status = 0 => db' = db /\ es' = es
      /\ (db' # db \/ es' # es) =>
           \E r \in Slots :
             /\ Len(req[r].calls) > 0
             /\ PrimaryWrite(LastCall(req[r])) \/ IndexWrite(LastCall(req[r]))
             /\ LastCall(req[r]).result = "pending"
             /\ req'[r] # req[r]
    ]_vars

\* An Update answered 404 while both stores hold a company.
C9_Witness ==
  \E r \in Slots :
    /\ req[r].op = "update" /\ req[r].status = 404
    /\ Castable(req[r].id)
    /\ db # EmptyStore /\ es # EmptyStore

\* C10: a successful Update is a partial merge: each of title,
\* description and url stored after the Update is the supplied value
\* when that value is truthy and the prior stored value otherwise.
C10_UpdateIsPartialMerge ==
  \A r \in Slots :
    (req[r].op = "update" /\ req[r].status = 200) =>
      /\ req[r].id \in DOMAIN db
      /\ \A f \in {"title", "description", "url"} :
           db[req[r].id][f] =
             IF Truthy(req[r].body[f]) THEN req[r].body[f] ELSE req[r].old[f]

\* An Update that supplies only a description: the description changes,
\* title and url stay.
C10_Witness ==
  \E r \in Slots :
    /\ req[r].op = "update" /\ req[r].status = 200
    /\ req[r].body = [title |-> Undefined, description |-> "Widgets",
                      url |-> Undefined]
    /\ req[r].old.description = ""
    /\ db[req[r].id].description = "Widgets"
    /\ db[req[r].id].title = req[r].old.title
    /\ db[req[r].id].url = req[r].old.url
    /\ req[r].old.url = "acme.com"

\* A Remove that has been answered after the search store reported that
\* it holds no document under the id: the company was in the primary
\* store and absent from the index.
RemoveOfUnindexed(q) ==
  /\ q.op = "remove" /\ Done(q)
  /\ Len(q.calls) = 3
  /\ q.calls[2].op = "remove" /\ q.calls[2].result = "ok"
  /\ q.calls[3].op = "delete" /\ q.calls[3].result = "notfound"

\* C11: Remove is idempotent at the index layer: a Remove of a company
\* that is in the primary store and whose id is already absent from the
\* search index does not fail with an index error; it deletes the
\* primary record and reports success (200).
C11_RemoveOfUnindexedSucceeds ==
  \A r \in Slots :
    RemoveOfUnindexed(req[r]) =>
      /\ req[r].status = 200
      /\ req[r].id \notin DOMAIN db

\* A List that has been answered while the index holds no document and
\* the search store was reachable: it reported no hits, or that the
\* index does not exist.
ListOfEmptyIndex(q) ==
  /\ q.op = "list" /\ Done(q)
  /\ es = EmptyStore
  /\ q.calls[1].result \in {"ok", "notfound"}

\* C12: a List on a registry with no companies returns an empty
\* sequence with status 200 and never an error, both when the search
\* index exists but is empty (the search reports no hits) and when the
\* index has never been created (the search reports index-not-found).
C12_EmptyListIsSuccess ==
  \A r \in Slots :
    ListOfEmptyIndex(req[r]) =>
      /\ req[r].status = 200
      /\ req[r].hits = << >>
      /\ req[r].calls[1].result = "notfound" <=> ~esCreated

\* A List answered 200 with no company although the search was rejected:
\* the index has never been created.
C12_Witness ==
  \E r \in Slots :
    /\ ListOfEmptyIndex(req[r])
    /\ ~esCreated
    /\ req[r].calls[1].result = "notfound"
    /\ req[r].status = 200 /\ req[r].hits = << >>

\* A List answered 200 with no company by an index that exists and is
\* empty: its only company has been removed.
C12_WitnessEmptied ==
  \E r \in Slots :
    /\ ListOfEmptyIndex(req[r])
    /\ esCreated
    /\ req[r].calls[1].result = "ok"
    /\ req[r].status = 200 /\ req[r].hits = << >>

\* A FetchOne, answered, of the id the last successful Register
\* returned, no Update or Remove having written that company since.
FetchOfRegistered(q) ==
  /\ q.op = "fetchOne" /\ Done(q)
  /\ registered # NoRegistration
  /\ q.id = registered.id

\* C13: a successful Register followed, with no Update or Remove of that
\* company in between, by a FetchOne of the returned id returns a record
\* whose title, description and url are the registered values
\* (description and url '' when omitted) and whose id is the id the
\* Register assigned, distinct from every id that existed before; the
\* FetchOne finds the record whenever its lookup succeeds.
C13_FetchReturnsRegistered ==
  \A r \in Slots :
    FetchOfRegistered(req[r]) =>
      /\ req[r].calls[1].result = "ok" => req[r].status = 200
      /\ req[r].status = 200 =>
           /\ excludeTitlesWithId(req[r].company) =
                [id |-> registered.id, title |-> registered.title,
                 description |-> registered.description,
                 url |-> registered.url]
           /\ registered.id \notin registered.prior

\* A FetchOne that returns the second company registered, whose body
\* carried a url and no description.
C13_Witness ==
  \E r \in Slots :
    /\ FetchOfRegistered(req[r]) /\ req[r].status = 200
    /\ registered.prior # {}
    /\ req[r].company.description = "" /\ req[r].company.url = "acme.com"
    /\ req[r].company._id = registered.id

\* Every request that arrived has been answered.
AllCompleted == \A r \in Slots : req[r].pc \in {"idle", "done"}

\* The index holds a document under the id of the company, with its
\* title, description and url.
Mirrored(i) ==
  /\ i \in DOMAIN es
  /\ es[i].title = db[i].title
  /\ es[i].description = db[i].description
  /\ es[i].url = db[i].url

\* C14: when no store or index call fails, under every interleaving of
\* concurrent Register and Update requests, once all requests have
\* completed every company in the primary store has an index document
\* under the same id with equal title, description and url.
C14_IndexMirrorsPrimary ==
  AllCompleted => \A i \in DOMAIN db : Mirrored(i)

\* C15: when no store or index call fails, under every interleaving of
\* concurrent Register, Update and Remove requests, once all requests
\* have completed no id is in the index while absent from the primary
\* store.
C15_NoIndexOnlyRecord ==
  AllCompleted => \A i \in DOMAIN es : i \in DOMAIN db

\* A Register or an Update that has been answered with its success
\* status.
SuccessfulWrite(q) ==
  \/ q.op = "register" /\ q.status = 201
  \/ q.op = "update" /\ q.status = 200

\* C16: after every successful Register and every successful Update the
\* index document of the company has exactly the fields title,
\* description, url and created, with created equal to the created of
\* the primary record.
C16_IndexDocumentShape ==
  \A r \in Slots :
    SuccessfulWrite(req[r]) =>
      LET i == req[r].company._id IN
        /\ i \in DOMAIN es /\ i \in DOMAIN db
        /\ DOMAIN es[i] = {"title", "description", "url", "created"}
        /\ es[i].created = db[i].created

\* Two Registers in flight that carry the same title: the first has
\* passed the existence check and waits for its insert, the second has
\* passed it too and its company is in the primary store under that
\* title.
RacingRegisters(r1, r2) ==
  /\ r1 # r2
  /\ req[r1].op = "register" /\ req[r2].op = "register"
  /\ req[r1].body.title = req[r2].body.title
  /\ req[r1].pc = "reg_save"
  /\ Len(req[r2].calls) >= 2 /\ req[r2].calls[2].result = "ok"
  /\ req[r2].company._id \in IdsByTitle(req[r1].body.title)

\* C17: the existence check and the insert of Register are not atomic:
\* once two concurrent Registers of one title have both passed the
\* check, the insert of the second goes through although the first has
\* inserted, and the primary store then holds two records of that title.
C17_CheckAndInsertNotAtomic ==
  \A r1, r2 \in Slots :
    RacingRegisters(r1, r2) =>
      ENABLED (/\ RegSave(r1, TRUE)
               /\ req'[r1].pc = "reg_index"
               /\ {req[r1].company._id, req[r2].company._id}
                    \subseteq IdsByTitle(req[r1].body.title)')

\* Two Registers of one title, both answered 201, their two companies
\* in the primary store under two ids.
C17_Witness ==
  \E r1, r2 \in Slots :
    /\ r1 # r2
    /\ req[r1].op = "register" /\ req[r2].op = "register"
    /\ req[r1].status = 201 /\ req[r2].status = 201
    /\ req[r1].body.title = req[r2].body.title
    /\ req[r1].resId # req[r2].resId
    /\ {req[r1].resId, req[r2].resId} \subseteq IdsByTitle(req[r1].body.title)

C19_IdAndCreatedImmutable ==
  [][ /\ \A i \in DOMAIN db \cap DOMAIN db' : db'[i].created = db[i].created
      /\ \A i \in DOMAIN db' \ DOMAIN db :
           \E r \in Slots :
             /\ req[r].op = "register" /\ req[r].pc = "reg_save"
             /\ req[r].company._id = i
             /\ db'[i].created = req[r].company.created
      /\ \A r \in Slots :
           (req[r].op = "update" /\ req'[r].op = "update") =>
             /\ DOMAIN db' = DOMAIN db
             /\ req'[r].company._id \in {"", req[r].id}
             /\ req[r].company # NoCompany =>
                  /\ req'[r].company._id = req[r].company._id
                  /\ req'[r].company.created = req[r].company.created
    ]_vars

\* An Update answered 200 that changed the title of a company registered
\* by an earlier request: id and created are those of the loaded
\* document.
C19_Witness ==
  \E r \in Slots :
    /\ req[r].op = "update" /\ req[r].status = 200
    /\ req[r].id \in DOMAIN db
    /\ db[req[r].id].title # req[r].old.title
    /\ db[req[r].id].created = req[r].old.created
    /\ req[r].old.created < Now
    /\ req[r].company._id = req[r].id

\* Every call the request has issued has returned.
AllCallsReturned(q) ==
  \A k \in 1..Len(q.calls) : q.calls[k].result # "pending"

\* C20: every List, FetchOne, Register, Update and Remove request
\* receives exactly one response, whatever the outcome of each store and
\* index call (an index error that carries no error body included): no
\* request is ever answered twice, and a request none of whose calls is
\* still to return has been answered.
C20_ExactlyOneResponse ==
  \A r \in Slots :
    req[r].op # "none" =>
      /\ req[r].sent <= 1
      /\ AllCallsReturned(req[r]) => req[r].sent = 1

\* The request shows the success status of its write operation.
SuccessResponse(q) ==
  \/ SuccessfulWrite(q)
  \/ q.op = "remove" /\ q.status = 200

\* C21: a success response of a write operation (201 for Register, 200
\* for Update and Remove) is sent only after both the primary-store
\* write and the search-index write of that request have returned
\* successfully: a request that shows success has issued its primary
\* write and then its index write, both have returned ok, and no write
\* request shows success while an index write of its own is pending or
\* has failed.
C21_SuccessOnlyAfterBothWrites ==
  \A r \in Slots :
    /\ SuccessResponse(req[r]) =>
         /\ Len(req[r].calls) = 3
         /\ PrimaryWrite(req[r].calls[2]) /\ req[r].calls[2].result = "ok"
         /\ IndexWrite(req[r].calls[3]) /\ req[r].calls[3].result = "ok"
         /\ req[r].sent = 1
    /\ ( /\ IsWrite(req[r])
         /\ \E k \in 1..Len(req[r].calls) :
              /\ IndexWrite(req[r].calls[k])
              /\ req[r].calls[k].result # "ok" )
       => ~SuccessResponse(req[r]) /\ req[r].status \in {0, 500}

\* A Register answered 201 with the id of a company that is in both
\* stores: its save and then its index write returned ok.
C21_Witness ==
  \E r \in Slots :
    /\ req[r].op = "register" /\ req[r].status = 201
    /\ req[r].calls[2].op = "save" /\ req[r].calls[2].result = "ok"
    /\ req[r].calls[3].op = "index" /\ req[r].calls[3].result = "ok"
    /\ req[r].resId \in DOMAIN db /\ req[r].resId \in DOMAIN es

====
